---- MODULE Spec2Model ----
(***************************************************************************)
(* A model of cannyfs (src/example/cannyfs.cpp): the deferred-operation    *)
(* engine of a pass-through FUSE filesystem.  FUSE callback threads        *)
(* (clients) call the cannyfs_* handlers; cannyfs_add_write either runs a  *)
(* closure inline or hands it to the work queue, whose worker threads run  *)
(* it under a cannyfs_writer barrier.  Readers build a cannyfs_reader.     *)
(***************************************************************************)
EXTENDS Integers, Sequences, FiniteSets, TLC

(* ------------------------------ bounds -------------------------------- *)
\* number of worker threads the work queue may have
MaxWorkers == 2
\* number of filesystem calls the kernel issues in one run
MaxOps == 3
\* the same for the runs that write one file and shut down
MaxWriteOps == 4

(* ------------------------- program constants -------------------------- *)
JUST_BARRIER == 0
LOCK_WHOLE == 1

(* ------------------------------ threads ------------------------------- *)
\* FUSE callback threads
Clients == {<<"c", 1>>, <<"c", 2>>}
\* threads of the work queue
Workers == {<<"w", i>> : i \in 1..MaxWorkers}
Threads == Clients \cup Workers
NoThread == <<"none", 0>>

\* what a syscall of the underlying file system may return: 0 or -errno
SyscallResults == {0, -2}

\* the keys of the path directory: real paths and the empty-path sentinel
Paths == {"/a", "/b", "/dir", "/dir/file"}
Keys == Paths \cup {""}

VARIABLES
  options,        \* struct cannyfs_options
  eventId,        \* atomic_llong eventId
  waitingEvents,  \* set<long long> waitingEvents
  data,           \* cannyfs_filemap::data: the paths that have a record
  lastEventId,    \* cannyfs_filedata::lastEventId per record
  recLock,        \* cannyfs_filedata::lock per record: the owning thread
  mapShared,      \* cannyfs_filemap::lock: threads holding it shared
  mapExcl,        \* cannyfs_filemap::lock: the thread holding it exclusively
  workQueue,      \* closures handed to workQueue.run and not yet started
  pc,             \* each thread's position
  cur,            \* each thread's current call or closure
  loc,            \* each thread's local variables
  ret,            \* what each client's last filesystem call returned
  awret,          \* what each client's last cannyfs_add_write returned
  submitted,      \* history: closures cannyfs_add_write has accepted
  bodyDone,       \* history: tickets whose closure body (fun) has run
  finished,       \* history: tickets whose closure has returned
  results,        \* history: <<ticket, result of the closure>>
  nops,           \* number of filesystem calls the kernel has yet to issue
  fhs,            \* concurrent_vector<cannyfs_filehandle> fhs
  openfds,        \* the process's descriptor table: fd -> what it refers to
  closes,         \* vector<cannyfs_closer> closes
  file,           \* contents of the files of the underlying store
  kopen,          \* handle ids the kernel holds (create/open returned 0)
  fhSeen,         \* history: per handle, the values getfh has returned
  closeLog,       \* history: descriptors passed to close(), in order
  errlog,         \* the lines cannyfs_reporterror has written to stderr
  issued,         \* history: the tickets ++::eventId has given, and to whom
  mainpc          \* position of main(): fuse_main, workQueue.wait, exit

bvars == <<eventId, issued, waitingEvents, data, lastEventId, recLock, mapShared, mapExcl>>
hvars == <<fhs, openfds, closes, file, kopen, fhSeen, closeLog, errlog>>
gvars == <<submitted, bodyDone, finished, results>>
vars == <<options, eventId, waitingEvents, data, lastEventId, recLock, mapShared,
          mapExcl, workQueue, pc, cur, loc, ret, awret, submitted, bodyDone,
          finished, results, nops, fhs, openfds, closes, file, kopen, fhSeen,
          closeLog, errlog, issued, mainpc>>

(* ------------------------------ options ------------------------------- *)
\* the defaults of struct cannyfs_options; eagercreate is read by
\* cannyfs_create but has no member in the struct
DefaultOptions ==
  [eagerlink |-> TRUE, eagerchmod |-> TRUE, eagerchown |-> TRUE,
   eagerclose |-> TRUE, closeverylate |-> TRUE, restrictivedirs |-> FALSE,
   eagercreate |-> TRUE, numThreads |-> 1]

\* the workers that exist for the pool size chosen
ActiveWorkers == {w \in Workers : w[2] <= options.numThreads}

(* ------------------------- calls and closures ------------------------- *)
\* `to` is the second path of a two-path call (link), "" for every other
NoTask == [id |-> 0, kind |-> "none", path |-> "", defer |-> FALSE,
           fh |-> -1, sz |-> 0, offset |-> 0, to |-> ""]
Task(id, kind, path, defer) ==
  [id |-> id, kind |-> kind, path |-> path, defer |-> defer,
   fh |-> -1, sz |-> 0, offset |-> 0, to |-> ""]
HTask(id, kind, path, defer, fh, sz, offset) ==
  [id |-> id, kind |-> kind, path |-> path, defer |-> defer,
   fh |-> fh, sz |-> sz, offset |-> offset, to |-> ""]
LTask(id, kind, path, to, defer) ==
  [id |-> id, kind |-> kind, path |-> path, defer |-> defer,
   fh |-> -1, sz |-> 0, offset |-> 0, to |-> to]

NoLoc == [bpath |-> "", always |-> FALSE, flag |-> JUST_BARRIER, found |-> FALSE,
          evt |-> 0, before |-> {}, live |-> {}, res |-> 0]

NoRet == [val |-> 0, by |-> 0]
NoAwret == [ticket |-> 0, defer |-> FALSE, val |-> 0, by |-> 0]

\* the kinds of call that build a cannyfs_reader
ReaderKinds == {"getattr", "opendir", "readdir", "rename", "read_buf"}
\* the kinds of call that run no barrier at all
SyncKinds == {"truncate", "unlink"}

\* tickets of the closures accepted so far for path p
SubmittedOn(p) == {t.id : t \in {s \in submitted : s.path = p}}
\* tickets of the closures whose cannyfs_writer exists right now
LiveWriters == {cur[th].id : th \in {t \in Threads : pc[t] \in {"body", "w_dtor"}}}

(* the descriptor table of the process: what a descriptor refers to *)
StdStream == [kind |-> "std", path |-> "", h |-> -1]
NoFd == [kind |-> "closed", path |-> "", h |-> -1]
FileFd(p) == [kind |-> "file", path |-> p, h |-> -1]
PipeFd(end, h) == [kind |-> end, path |-> "", h |-> h]

(* ------------------------------- Init --------------------------------- *)
InitWith(opts, calls) ==
  /\ options \in opts
  /\ eventId = 0
  /\ waitingEvents = {}
  /\ data = {}
  /\ lastEventId = [k \in Keys |-> 0]
  /\ recLock = [k \in Keys |-> NoThread]
  /\ mapShared = {}
  /\ mapExcl = NoThread
  /\ workQueue = {}
  /\ pc = [t \in Threads |-> "idle"]
  /\ cur = [t \in Threads |-> NoTask]
  /\ loc = [t \in Threads |-> NoLoc]
  /\ ret = [c \in Clients |-> NoRet]
  /\ awret = [c \in Clients |-> NoAwret]
  /\ submitted = {}
  /\ bodyDone = {}
  /\ finished = {}
  /\ results = {}
  /\ nops = calls
  /\ fhs = <<>>
  /\ openfds = [n \in 0..2 |-> StdStream]
  /\ closes = <<>>
  /\ file = [p \in Paths |-> <<>>]
  /\ kopen = {}
  /\ fhSeen = <<>>
  /\ closeLog = <<>>
  /\ errlog = <<>>
  /\ issued = <<>>
  /\ mainpc = "fuse_main"

(* -------------------------- cannyfs_add_write ------------------------- *)
NextTicketLostUpdate == IF eventId = 0 THEN 1 ELSE eventId
\* line 327: long long eventIdNow = ++::eventId, one atomic read-modify-write
NextTicket == eventId + 1

\* the kernel hands a new call to an idle FUSE thread
Begin(c) == pc[c] = "idle" /\ mainpc = "fuse_main" /\ nops > 0

\* what a handler does with the value cannyfs_add_write returned: write_buf
\* goes on to its foreground splice unless the value is negative
\* (lines 782-792), every other handler returns the value as it is
AfterAddWrite(c, val, by) ==
  IF cur[c].kind = "write_buf" /\ val >= 0
  THEN /\ pc' = [pc EXCEPT ![c] = "wb_splice"]
       /\ UNCHANGED <<cur, loc, ret, kopen>>
  ELSE /\ pc' = [pc EXCEPT ![c] = "idle"]
       /\ cur' = [cur EXCEPT ![c] = NoTask]
       /\ loc' = [loc EXCEPT ![c] = NoLoc]
       /\ ret' = [ret EXCEPT ![c] = [val |-> val, by |-> by]]
       /\ kopen' = IF cur[c].kind = "create" /\ val = 0
                   THEN kopen \cup {cur[c].fh}
                   ELSE IF cur[c].kind = "release" THEN kopen \ {cur[c].fh}
                   ELSE kopen

RunsDeferredAlways(defer) == FALSE
\* line 328: if (!defer) the closure runs in the calling thread
RunsDeferred(defer) == defer

\* lines 328-336: run fun(eventIdNow) inline, or workQueue.run it and return 0
cannyfs_add_write(c) ==
  /\ pc[c] = "add_write"
  /\ submitted' = submitted \cup {cur[c]}
  /\ IF RunsDeferred(cur[c].defer)
     THEN /\ workQueue' = workQueue \cup {cur[c]}
          /\ awret' = [awret EXCEPT ![c] = [ticket |-> cur[c].id,
                          defer |-> cur[c].defer, val |-> 0, by |-> 0]]
          /\ AfterAddWrite(c, 0, 0)
     ELSE /\ pc' = [pc EXCEPT ![c] = "w_ctor"]
          /\ UNCHANGED <<workQueue, awret, cur, loc, ret, kopen>>
  /\ UNCHANGED <<options, bvars, bodyDone, finished, results, nops, fhs, openfds,
                 closes, file, fhSeen, closeLog, errlog, mainpc>>

\* a worker of the task group starts one of the closures handed to run();
\* tbb::task_group promises no order
workQueue_run(w) ==
  /\ w \in ActiveWorkers
  /\ pc[w] = "idle"
  /\ \E t \in workQueue :
       /\ workQueue' = workQueue \ {t}
       /\ cur' = [cur EXCEPT ![w] = t]
  /\ pc' = [pc EXCEPT ![w] = "w_ctor"]
  /\ UNCHANGED <<options, bvars, loc, ret, awret, gvars, nops, hvars, mainpc>>

(* ---------------------------- cannyfs_writer -------------------------- *)
\* line 286: global(path != "")
IsGlobal(path) == path # ""

\* line 297: if (!global && options.restrictivedirs) generalwriter = new ...
MakesGeneralWriter(path) == ~IsGlobal(path) /\ options.restrictivedirs

(* waitingEvents is a std::set that the threads use without a lock of its
   own: the writer's constructor inserts before it has any lock (line 289),
   the destructor erases (line 302), the reader's constructor looks up with
   the mutex of its own record held (line 264) *)
\* the thread's next step changes waitingEvents
Modifies(th) ==
  \/ pc[th] = "w_ctor" /\ IsGlobal(cur[th].path)
  \/ pc[th] = "w_ctor2" /\ IsGlobal(cur[th].to)
  \/ pc[th] = "w_dtor" /\ ~IsGlobal(cur[th].path)
\* the thread's next step reads or changes waitingEvents
Accessing(th) == Modifies(th) \/ pc[th] = "r_check"
\* the thread's access may overlap another thread's, one of them a change:
\* a data race on the set
Racing(th) ==
  \E o \in Threads \ {th} : Accessing(o) /\ (Modifies(th) \/ Modifies(o))
\* what waitingEvents.insert(id) may leave: the set with id, or, when the
\* insert races, the set without it
InsertOutcomes(th, id) ==
  IF Racing(th) THEN {waitingEvents \cup {id}, waitingEvents}
  ELSE {waitingEvents \cup {id}}
\* what waitingEvents.find(id) != end() may say: whether id is in the set,
\* or, when the lookup races, anything
FindOutcomes(th, id) ==
  IF Racing(th) THEN BOOLEAN ELSE {id \in waitingEvents}

\* lines 286-290 up to the call of filemap.get(path, true, lock)
writer_ctor(th) ==
  /\ pc[th] = "w_ctor"
  /\ IF IsGlobal(cur[th].path)
     THEN waitingEvents' \in InsertOutcomes(th, cur[th].id)
     ELSE waitingEvents' = waitingEvents
  /\ loc' = [loc EXCEPT ![th] = [@ EXCEPT !.bpath = cur[th].path,
                                          !.always = TRUE,
                                          !.flag = LOCK_WHOLE]]
  /\ pc' = [pc EXCEPT ![th] = "get_shared"]
  /\ UNCHANGED <<options, eventId, issued, data, lastEventId, recLock, mapShared, mapExcl,
                 workQueue, cur, ret, awret, gvars, nops, hvars, mainpc>>

(* ------------------------- cannyfs_filemap::get ----------------------- *)
\* where a thread goes when get has returned a locked record
AfterGetHit(th) ==
  IF cur[th].kind \in ReaderKinds THEN "r_check"
  ELSE IF cur[th].kind = "link" /\ ~loc[th].found THEN "w_ctor2"
  ELSE IF MakesGeneralWriter(cur[th].path) THEN "w_general"
  ELSE "body"

\* lines 220-224: shared_lock maplock; data.find(path).  On a hit the thread
\* keeps the shared lock and goes on to lock the record; on a miss the block
\* ends, and get either returns null or goes on to the exclusive phase.
filemap_get_shared(th) ==
  /\ pc[th] = "get_shared"
  /\ mapExcl = NoThread
  /\ IF loc[th].bpath \in data
     THEN /\ mapShared' = mapShared \cup {th}
          /\ pc' = [pc EXCEPT ![th] = "get_lock"]
          /\ UNCHANGED loc
     ELSE /\ pc' = [pc EXCEPT ![th] = IF loc[th].always THEN "get_excl" ELSE "syscall"]
          /\ UNCHANGED <<mapShared, loc>>
  /\ UNCHANGED <<options, eventId, issued, waitingEvents, data, lastEventId, recLock, mapExcl,
                 workQueue, cur, ret, awret, gvars, nops, hvars, mainpc>>

InsertedAlone(path) == {path}
\* lines 231-239: data.find(path) again; data[path] adds a record for the
\* path only if there is none, and leaves every other record alone
Inserted(path) == data \cup {path}

\* lines 229-240: unique_lock maplock; find again, insert the record if missing
filemap_get_excl(th) ==
  /\ pc[th] = "get_excl"
  /\ mapExcl = NoThread
  /\ mapShared = {}
  /\ mapExcl' = th
  /\ data' = Inserted(loc[th].bpath)
  /\ pc' = [pc EXCEPT ![th] = "get_lock"]
  /\ UNCHANGED <<options, eventId, issued, waitingEvents, lastEventId, recLock, mapShared,
                 workQueue, cur, loc, ret, awret, gvars, nops, hvars, mainpc>>

\* lines 225-227 and 241-242: lock = unique_lock<mutex>(result->lock), taken
\* while the map lock (shared or exclusive) is still held; the map lock is
\* released when the block ends
filemap_get_lock(th) ==
  /\ pc[th] = "get_lock"
  /\ recLock[loc[th].bpath] = NoThread
  /\ recLock' = [recLock EXCEPT ![loc[th].bpath] = th]
  /\ mapShared' = mapShared \ {th}
  /\ mapExcl' = IF mapExcl = th THEN NoThread ELSE mapExcl
  /\ loc' = [loc EXCEPT ![th] = [@ EXCEPT !.found = TRUE,
                                          !.evt = lastEventId[loc[th].bpath]]]
  /\ pc' = [pc EXCEPT ![th] = AfterGetHit(th)]
  /\ UNCHANGED <<options, eventId, issued, waitingEvents, data, lastEventId,
                 workQueue, cur, ret, awret, gvars, nops, hvars, mainpc>>

(* ------------------------- closures: fun(path) ------------------------ *)
MetaKinds == {"chmod", "chown"}

\* lines 615-622, 627-635: the closure of chmod / chown: one syscall
body_meta(th) ==
  /\ pc[th] = "body"
  /\ cur[th].kind \in MetaKinds
  /\ \E res \in SyscallResults :
       loc' = [loc EXCEPT ![th] = [@ EXCEPT !.res = res]]
  /\ bodyDone' = bodyDone \cup {cur[th].id}
  /\ pc' = [pc EXCEPT ![th] = "w_dtor"]
  /\ UNCHANGED <<options, bvars, workQueue, cur, ret, awret, submitted, finished,
                 results, nops, hvars, mainpc>>

\* lines 300-307: ~cannyfs_writer, then the closure returns.  The lock member
\* still owns the record mutex (LOCK_WHOLE) and unlocks it when destroyed.
ErasesTicket(path) == ~IsGlobal(path)

KeepsLocked(k) == recLock
\* the unique_lock that owns the record mutex is destroyed: the mutex is free
Unlock(k) == [recLock EXCEPT ![k] = NoThread]

writer_dtor(th) ==
  /\ pc[th] = "w_dtor"
  /\ waitingEvents' = IF ErasesTicket(cur[th].path)
                      THEN waitingEvents \ {cur[th].id}
                      ELSE waitingEvents
  /\ recLock' = Unlock(cur[th].path)
  /\ finished' = finished \cup {cur[th].id}
  /\ results' = results \cup {<<cur[th].id, loc[th].res>>}
  /\ IF th \in Clients
     THEN /\ awret' = [awret EXCEPT ![th] = [ticket |-> cur[th].id,
                          defer |-> cur[th].defer, val |-> loc[th].res,
                          by |-> cur[th].id]]
          /\ AfterAddWrite(th, loc[th].res, cur[th].id)
     ELSE /\ pc' = [pc EXCEPT ![th] = "idle"]
          /\ cur' = [cur EXCEPT ![th] = NoTask]
          /\ loc' = [loc EXCEPT ![th] = NoLoc]
          /\ UNCHANGED <<awret, ret, kopen>>
  /\ UNCHANGED <<options, eventId, issued, data, lastEventId, mapShared, mapExcl, workQueue,
                 submitted, bodyDone, nops, fhs, openfds, closes, file, fhSeen,
                 closeLog, errlog, mainpc>>

(* ---------------------------- cannyfs_reader -------------------------- *)
\* a handler that starts with cannyfs_reader b(path, flag): line 259 calls
\* filemap.get(path, flag == LOCK_WHOLE, locallock)
StartReader(c, kind, p, key, flag) ==
  /\ Begin(c)
  /\ cur' = [cur EXCEPT ![c] = Task(0, kind, p, FALSE)]
  /\ loc' = [loc EXCEPT ![c] = [NoLoc EXCEPT !.bpath = key,
                                             !.always = (flag = LOCK_WHOLE),
                                             !.flag = flag,
                                             !.before = SubmittedOn(p),
                                             !.live = LiveWriters]]
  /\ pc' = [pc EXCEPT ![c] = "get_shared"]
  /\ nops' = nops - 1
  /\ UNCHANGED <<options, bvars, workQueue, ret, awret, gvars, hvars, mainpc>>

\* lines 367-378
cannyfs_getattr(c, p) == StartReader(c, "getattr", p, p, JUST_BARRIER)

\* lines 263-273: eventId = fileobj->lastEventId (read when get returned);
\* while the ticket is in waitingEvents, processed.wait(locallock); then the
\* constructor ends: locallock is dropped unless the flag is LOCK_WHOLE
reader_wait(c) ==
  /\ pc[c] \in {"r_check", "r_wait"}
  /\ IF pc[c] = "r_wait"
     THEN /\ recLock[loc[c].bpath] = NoThread
          /\ recLock' = [recLock EXCEPT ![loc[c].bpath] = c]
          /\ pc' = [pc EXCEPT ![c] = "r_check"]
     ELSE \E pending \in FindOutcomes(c, loc[c].evt) :
          IF pending
          THEN /\ recLock' = [recLock EXCEPT ![loc[c].bpath] = NoThread]
               /\ pc' = [pc EXCEPT ![c] = "r_wait"]
          ELSE /\ recLock' = IF loc[c].flag = LOCK_WHOLE THEN recLock
                             ELSE [recLock EXCEPT ![loc[c].bpath] = NoThread]
               /\ pc' = [pc EXCEPT ![c] = "syscall"]
  /\ UNCHANGED <<options, eventId, issued, waitingEvents, data, lastEventId, mapShared,
                 mapExcl, workQueue, cur, loc, ret, awret, gvars, nops, hvars, mainpc>>

\* the handler's own syscall and its return; the reader is destroyed and
\* unlocks the record if it kept the lock (LOCK_WHOLE)
fs_syscall(c) ==
  /\ pc[c] = "syscall"
  /\ cur[c].kind # "read_buf"
  /\ \E res \in SyscallResults :
       ret' = [ret EXCEPT ![c] = [val |-> res, by |-> 0]]
  /\ recLock' = IF loc[c].found /\ loc[c].flag = LOCK_WHOLE
                THEN [recLock EXCEPT ![loc[c].bpath] = NoThread]
                ELSE recLock
  /\ pc' = [pc EXCEPT ![c] = "idle"]
  /\ cur' = [cur EXCEPT ![c] = NoTask]
  /\ loc' = [loc EXCEPT ![c] = NoLoc]
  /\ UNCHANGED <<options, eventId, issued, waitingEvents, data, lastEventId, mapShared,
                 mapExcl, workQueue, awret, gvars, nops, hvars, mainpc>>

(* ------------------------ deferrable metadata calls ------------------- *)
\* a handler that is one call of cannyfs_add_write(defer, path, fun):
\* the ticket is taken at line 327
StartAddWrite(c, kind, p, defer) ==
  /\ Begin(c)
  /\ eventId' = NextTicket
  /\ issued' = Append(issued, [by |-> c, ticket |-> NextTicket])
  /\ cur' = [cur EXCEPT ![c] = Task(NextTicket, kind, p, defer)]
  /\ pc' = [pc EXCEPT ![c] = "add_write"]
  /\ nops' = nops - 1
  /\ UNCHANGED <<options, waitingEvents, data, lastEventId, recLock, mapShared,
                 mapExcl, workQueue, loc, ret, awret, gvars, hvars, mainpc>>

\* lines 613-623
cannyfs_chmod(c, p) == StartAddWrite(c, "chmod", p, options.eagerchmod)
\* lines 625-636
cannyfs_chown(c, p) == StartAddWrite(c, "chown", p, options.eagerchown)

(* link: a closure with two writers, lines 356-364 and 600-611 *)
\* lines 600-602 and 327: cannyfs_link hands its closure to
\* cannyfs_add_write(options.eagerlink, cfrom, cto, ...)
cannyfs_link(c, from, to) ==
  /\ Begin(c)
  /\ eventId' = NextTicket
  /\ issued' = Append(issued, [by |-> c, ticket |-> NextTicket])
  /\ cur' = [cur EXCEPT ![c] = LTask(NextTicket, "link", from, to, options.eagerlink)]
  /\ pc' = [pc EXCEPT ![c] = "add_write"]
  /\ nops' = nops - 1
  /\ UNCHANGED <<options, waitingEvents, data, lastEventId, recLock, mapShared,
                 mapExcl, workQueue, loc, ret, awret, gvars, hvars, mainpc>>

\* line 360: cannyfs_writer writer2(path2, LOCK_WHOLE, eventId), built while
\* writer1 holds the record mutex of path1: the insert of line 289 with the
\* same ticket, then filemap.get(path2, true, lock)
writer2_ctor(th) ==
  /\ pc[th] = "w_ctor2"
  /\ IF IsGlobal(cur[th].to)
     THEN waitingEvents' \in InsertOutcomes(th, cur[th].id)
     ELSE waitingEvents' = waitingEvents
  /\ loc' = [loc EXCEPT ![th] = [@ EXCEPT !.bpath = cur[th].to,
                                          !.always = TRUE,
                                          !.flag = LOCK_WHOLE]]
  /\ pc' = [pc EXCEPT ![th] = "get_shared"]
  /\ UNCHANGED <<options, eventId, issued, data, lastEventId, recLock, mapShared, mapExcl,
                 workQueue, cur, ret, awret, gvars, nops, hvars, mainpc>>

\* the errno of a mutex lock that finds the caller already owns the mutex
EDEADLK == 35
\* lines 226 and 241 when path2 = path1: unique_lock<mutex>(result->lock) on
\* the mutex writer1 of the same thread already owns.  std::mutex is not
\* recursive: the call never returns, or it throws std::system_error, which
\* unwinds get (the map lock is dropped) and the closure (writer1 destroyed)
relock_own_mutex(th) ==
  /\ pc[th] = "get_lock"
  /\ recLock[loc[th].bpath] = th
  /\ \E throws \in BOOLEAN :
       IF throws
       THEN /\ mapShared' = mapShared \ {th}
            /\ mapExcl' = IF mapExcl = th THEN NoThread ELSE mapExcl
            /\ loc' = [loc EXCEPT ![th] = [@ EXCEPT !.res = 0 - EDEADLK]]
            /\ pc' = [pc EXCEPT ![th] = "w_dtor"]
       ELSE /\ pc' = [pc EXCEPT ![th] = "blocked"]
            /\ UNCHANGED <<mapShared, mapExcl, loc>>
  /\ UNCHANGED <<options, eventId, issued, waitingEvents, data, lastEventId, recLock,
                 workQueue, cur, ret, awret, gvars, nops, hvars, mainpc>>

\* lines 602-610: the closure of link: one syscall, 0 or -errno
body_link(th) ==
  /\ pc[th] = "body"
  /\ cur[th].kind = "link"
  /\ \E res \in SyscallResults :
       loc' = [loc EXCEPT ![th] = [@ EXCEPT !.res = res]]
  /\ bodyDone' = bodyDone \cup {cur[th].id}
  /\ pc' = [pc EXCEPT ![th] = "w_dtor2"]
  /\ UNCHANGED <<options, bvars, workQueue, cur, ret, awret, submitted, finished,
                 results, nops, hvars, mainpc>>

\* lines 300-307 for writer2, destroyed first: global is true, nothing is
\* erased; its lock member unlocks the record mutex of path2
writer2_dtor(th) ==
  /\ pc[th] = "w_dtor2"
  /\ recLock' = [recLock EXCEPT ![cur[th].to] = NoThread]
  /\ pc' = [pc EXCEPT ![th] = "w_dtor"]
  /\ UNCHANGED <<options, eventId, issued, waitingEvents, data, lastEventId, mapShared,
                 mapExcl, workQueue, cur, loc, ret, awret, gvars, nops, hvars, mainpc>>

\* a handler that runs its syscall with no barrier at all
StartSync(c, kind, p) ==
  /\ Begin(c)
  /\ cur' = [cur EXCEPT ![c] = Task(0, kind, p, FALSE)]
  /\ loc' = [loc EXCEPT ![c] = [NoLoc EXCEPT !.before = SubmittedOn(p),
                                             !.live = LiveWriters]]
  /\ pc' = [pc EXCEPT ![c] = "syscall"]
  /\ nops' = nops - 1
  /\ UNCHANGED <<options, bvars, workQueue, ret, awret, gvars, hvars, mainpc>>

\* lines 638-648
cannyfs_truncate(c, p) == StartSync(c, "truncate", p)
\* lines 546-558
cannyfs_unlink(c, p) == StartSync(c, "unlink", p)

\* lines 312-321: cannyfs_dirreader passes "" for the path under restrictivedirs
DirReaderKey(p) == IF options.restrictivedirs THEN "" ELSE p
\* lines 434-455
cannyfs_opendir(c, p) == StartReader(c, "opendir", p, DirReaderKey(p), JUST_BARRIER)
\* lines 462-510
cannyfs_readdir(c, p) == StartReader(c, "readdir", p, DirReaderKey(p), JUST_BARRIER)

(* ----------------------------- file handles ------------------------- *)
\* lines 93-102: a cannyfs_filehandle as constructed: fd(-1), pipefds{-1,-1}.
\* pipe holds the bytes that are in the handle's pipe; path, created, woff
\* and first record the call that made the handle, the offset the kernel
\* writes next, and the first descriptor setfh stored.
NewHandle(p, created) ==
  [fd |-> -1, first |-> -1, haspipe |-> FALSE, pipe |-> <<>>, path |-> p,
   created |-> created, woff |-> 0, flushed |-> FALSE]

\* lines 148-151: handle ids count from 0
getcfh(h) == fhs[h + 1]
HandleIds == {i - 1 : i \in DOMAIN fhs}

NewFhSlotRecycled == IF fhs # <<>> THEN 0 ELSE Len(fhs)
\* lines 138-146: freefhs.pop never succeeds (nothing is ever pushed to
\* freefhs), so getnewfh returns the slot fhs.grow_by(1) appends
NewFhSlot == Len(fhs)

\* the table after getnewfh has returned slot h for a handler on path p
GrownFhs(h, p, created) ==
  IF h = Len(fhs) THEN Append(fhs, NewHandle(p, created)) ELSE fhs

\* lines 115-120: setfh stores the descriptor (and notifies `opened`)
setfh(table, h, fd) ==
  [table EXCEPT ![h + 1] = [@ EXCEPT !.fd = fd,
                                     !.first = IF @ = -1 THEN fd ELSE @]]

\* lines 122-131: getfh returns once fd is not -1
CanGetfh(h) == getcfh(h).fd # -1


\* the kernel gives the lowest descriptor that is not in use
LowestFree(tab) ==
  CHOOSE n \in 0..Cardinality(DOMAIN tab) :
    n \notin DOMAIN tab /\ \A m \in 0..(n - 1) : m \in DOMAIN tab
Opened(tab, fd, what) == [n \in DOMAIN tab \cup {fd} |-> IF n = fd THEN what ELSE tab[n]]
Closed(tab, fds) == [n \in DOMAIN tab \ fds |-> tab[n]]
Target(tab, fd) == IF fd \in DOMAIN tab THEN tab[fd] ELSE NoFd

\* lines 104-113: getpipefd makes the pipe on first use; the state after it
EnsurePipe(h) ==
  IF getcfh(h).haspipe
  THEN [fhs |-> fhs, openfds |-> openfds]
  ELSE LET r == LowestFree(openfds)
           t1 == Opened(openfds, r, PipeFd("pipe_r", h))
           w == LowestFree(t1)
       IN [fhs |-> [fhs EXCEPT ![h + 1] = [@ EXCEPT !.haspipe = TRUE]],
           openfds |-> Opened(t1, w, PipeFd("pipe_w", h))]

(* vector<cannyfs_closer> closes, lines 195-208 *)
\* sizes at which push_back finds the vector full and moves it to new
\* storage: the old elements are copied and then destroyed
GrowsAt == {1, 2, 4, 8}
\* the descriptors ~cannyfs_closer closes during closes.push_back(fd): those
\* of the old elements when the vector is moved, then the temporary's
ClosedByPush(fd) ==
  (IF Len(closes) \in GrowsAt THEN closes ELSE <<>>) \o <<fd>>
SeqRange(q) == {q[i] : i \in DOMAIN q}

\* the errno close() leaves when the descriptor is not open
EBADF == 9
RECURSIVE CloserErrors(_, _)
\* lines 180-193 and 204: what cannyfs_negerrorchecker(close(fd)) writes to
\* stderr when the descriptors of q are closed one after another, starting
\* from the descriptor table tab: a line with errno for every close that
\* returns -1
CloserErrors(tab, q) ==
  IF q = <<>> THEN <<>>
  ELSE (IF Head(q) \in DOMAIN tab THEN <<>> ELSE <<EBADF>>)
       \o CloserErrors([n \in DOMAIN tab \ {Head(q)} |-> tab[n]], Tail(q))

(* the files of the underlying store: a sequence of bytes, 0 where nothing
   was written *)
Max(a, b) == IF a > b THEN a ELSE b
Min(a, b) == IF a < b THEN a ELSE b
WriteAt(f, off, bytes) ==
  [i \in 1..Max(Len(f), off + Len(bytes)) |->
     IF i > off /\ i <= off + Len(bytes) THEN bytes[i - off]
     ELSE IF i <= Len(f) THEN f[i] ELSE 0]
\* the bytes a write_buf call carries: sz bytes that name the call's ticket
Payload(t) == [i \in 1..t.sz |-> t.id]
WriteSizes == {1, 2}

\* lines 695-707: getnewfh, open, setfh; the handle is known to nobody else
\* until the call has returned
cannyfs_open(c, p) ==
  /\ Begin(c)
  /\ LET h == NewFhSlot
         grown == GrownFhs(h, p, FALSE)
         fd == LowestFree(openfds)
     IN \E ok \in BOOLEAN :
          IF ok
          THEN /\ fhs' = setfh(grown, h, fd)
               /\ openfds' = Opened(openfds, fd, FileFd(p))
               /\ kopen' = kopen \cup {h}
               /\ fhSeen' = IF h = Len(fhs) THEN Append(fhSeen, {}) ELSE fhSeen
               /\ ret' = [ret EXCEPT ![c] = [val |-> 0, by |-> 0]]
          ELSE /\ fhs' = grown
               /\ fhSeen' = IF h = Len(fhs) THEN Append(fhSeen, {}) ELSE fhSeen
               /\ ret' = [ret EXCEPT ![c] = [val |-> -2, by |-> 0]]
               /\ UNCHANGED <<openfds, kopen>>
  /\ nops' = nops - 1
  /\ UNCHANGED <<options, bvars, workQueue, pc, cur, loc, awret, gvars, closes, file,
                 closeLog, errlog, mainpc>>

\* lines 681-685 and 327: getnewfh, the handle id goes to fi->fh, and
\* cannyfs_add_write takes the ticket
cannyfs_create(c, p) ==
  /\ Begin(c)
  /\ fhs' = GrownFhs(NewFhSlot, p, TRUE)
  /\ fhSeen' = IF NewFhSlot = Len(fhs) THEN Append(fhSeen, {}) ELSE fhSeen
  /\ eventId' = NextTicket
  /\ issued' = Append(issued, [by |-> c, ticket |-> NextTicket])
  /\ cur' = [cur EXCEPT ![c] = HTask(NextTicket, "create", p, options.eagercreate,
                                     NewFhSlot, 0, 0)]
  /\ pc' = [pc EXCEPT ![c] = "add_write"]
  /\ nops' = nops - 1
  /\ UNCHANGED <<options, waitingEvents, data, lastEventId, recLock, mapShared,
                 mapExcl, workQueue, loc, ret, awret, gvars, openfds, closes, file,
                 kopen, closeLog, errlog, mainpc>>

\* what the closure of create returns when open succeeds: the lambda ends
\* without a return statement, so the value is whatever the build leaves
\* there; a deferred closure's value is dropped by the task group
ReturnedOffEnd(defer) == IF defer THEN {0} ELSE SyscallResults

\* lines 685-692: the closure of create: open; on failure return -errno; on
\* success setfh, and control runs off the end of the lambda without a
\* return value
body_create(th) ==
  /\ pc[th] = "body"
  /\ cur[th].kind = "create"
  /\ \E ok \in BOOLEAN, garbage \in ReturnedOffEnd(cur[th].defer) :
       IF ok
       THEN /\ fhs' = setfh(fhs, cur[th].fh, LowestFree(openfds))
            /\ openfds' = Opened(openfds, LowestFree(openfds), FileFd(cur[th].path))
            /\ loc' = [loc EXCEPT ![th] = [@ EXCEPT !.res = garbage]]
       ELSE /\ garbage = 0
            /\ loc' = [loc EXCEPT ![th] = [@ EXCEPT !.res = -2]]
            /\ UNCHANGED <<fhs, openfds>>
  /\ bodyDone' = bodyDone \cup {cur[th].id}
  /\ pc' = [pc EXCEPT ![th] = "w_dtor"]
  /\ UNCHANGED <<options, bvars, workQueue, cur, ret, awret, submitted, finished,
                 results, nops, closes, file, kopen, fhSeen, closeLog, errlog, mainpc>>

\* lines 760-767 and 327: the kernel writes the next sz bytes of the file;
\* cannyfs_add_write takes the ticket
cannyfs_write_buf(c, h, sz) ==
  /\ Begin(c)
  /\ h \in kopen
  /\ nops' = nops - 1
  /\ eventId' = NextTicket
  /\ issued' = Append(issued, [by |-> c, ticket |-> NextTicket])
  /\ cur' = [cur EXCEPT ![c] = HTask(NextTicket, "write_buf", getcfh(h).path, TRUE,
                                     h, sz, getcfh(h).woff)]
  /\ fhs' = [fhs EXCEPT ![h + 1] = [@ EXCEPT !.woff = @ + sz, !.flushed = FALSE]]
  /\ pc' = [pc EXCEPT ![c] = "add_write"]
  /\ UNCHANGED <<options, waitingEvents, data, lastEventId, recLock, mapShared,
                 mapExcl, workQueue, loc, ret, awret, gvars, openfds, closes,
                 file, kopen, fhSeen, closeLog, errlog, mainpc>>

\* lines 787-792: the foreground half: getpipefd(1) and fuse_buf_copy of the
\* kernel's buffer into the write end of the pipe (the code names the
\* destination `dst`, which is not declared there; halfdst is meant)
write_buf_splice(c) ==
  /\ pc[c] = "wb_splice"
  /\ LET st == EnsurePipe(cur[c].fh)
     IN /\ fhs' = [st.fhs EXCEPT ![cur[c].fh + 1] =
                     [@ EXCEPT !.pipe = @ \o Payload(cur[c])]]
        /\ openfds' = st.openfds
  /\ ret' = [ret EXCEPT ![c] = [val |-> cur[c].sz, by |-> 0]]
  /\ pc' = [pc EXCEPT ![c] = "idle"]
  /\ cur' = [cur EXCEPT ![c] = NoTask]
  /\ loc' = [loc EXCEPT ![c] = NoLoc]
  /\ UNCHANGED <<options, bvars, workQueue, awret, gvars, nops, closes, file, kopen,
                 fhSeen, closeLog, errlog, mainpc>>

\* lines 767-780: the closure of write_buf: getfh (waits for `opened`),
\* getpipefd(0), and fuse_buf_copy with FUSE_BUF_SPLICE_NONBLOCK from the
\* read end of the pipe to the descriptor at `offset`: it moves the bytes
\* that are in the pipe, at most sz, and fails if there are none
body_write_buf(th) ==
  /\ pc[th] = "body"
  /\ cur[th].kind = "write_buf"
  /\ CanGetfh(cur[th].fh)
  /\ LET h == cur[th].fh
         st == EnsurePipe(h)
         inpipe == st.fhs[h + 1].pipe
         k == Min(cur[th].sz, Len(inpipe))
         bytes == SubSeq(inpipe, 1, k)
         rest == SubSeq(inpipe, k + 1, Len(inpipe))
         dst == Target(st.openfds, getcfh(h).fd)
         taken == [st.fhs EXCEPT ![h + 1] = [@ EXCEPT !.pipe = rest]]
     IN /\ openfds' = st.openfds
        /\ fhSeen' = [fhSeen EXCEPT ![h + 1] = @ \cup {getcfh(h).fd}]
        /\ IF k = 0
           THEN /\ fhs' = st.fhs
                /\ file' = file
                /\ loc' = [loc EXCEPT ![th] = [@ EXCEPT !.res = -11]]
           ELSE IF dst.kind = "file"
           THEN /\ fhs' = taken
                /\ file' = [file EXCEPT ![dst.path] = WriteAt(@, cur[th].offset, bytes)]
                /\ loc' = [loc EXCEPT ![th] = [@ EXCEPT !.res = k]]
           ELSE IF dst.kind = "pipe_w"
           THEN /\ fhs' = [taken EXCEPT ![dst.h + 1] = [@ EXCEPT !.pipe = @ \o bytes]]
                /\ file' = file
                /\ loc' = [loc EXCEPT ![th] = [@ EXCEPT !.res = k]]
           ELSE /\ fhs' = st.fhs
                /\ file' = file
                /\ loc' = [loc EXCEPT ![th] = [@ EXCEPT !.res = -9]]
  /\ bodyDone' = bodyDone \cup {cur[th].id}
  /\ pc' = [pc EXCEPT ![th] = "w_dtor"]
  /\ UNCHANGED <<options, bvars, workQueue, cur, ret, awret, submitted, finished,
                 results, nops, closes, kopen, closeLog, errlog, mainpc>>

\* lines 807-815 and 831-838: flush and release start; with closeverylate
\* they first call getfh in the calling thread
StartClose(c, kind, h) ==
  /\ Begin(c)
  /\ h \in kopen
  /\ cur' = [cur EXCEPT ![c] = HTask(0, kind, getcfh(h).path, options.eagerclose, h, 0, 0)]
  /\ pc' = [pc EXCEPT ![c] = IF options.closeverylate THEN "late_getfh" ELSE "aw_ticket"]
  /\ nops' = nops - 1
  /\ UNCHANGED <<options, bvars, workQueue, loc, ret, awret, gvars, hvars, mainpc>>

cannyfs_flush(c, h) == StartClose(c, "flush", h)
cannyfs_release(c, h) == StartClose(c, "release", h)

\* lines 811-812 and 835: closes.push_back(dup(getfh(fi))) in flush, which
\* then returns 0; closes.push_back(getfh(fi)) in release, which goes on to
\* cannyfs_add_write.  The argument becomes a temporary cannyfs_closer that
\* is copied into the vector and destroyed at the end of the statement.
late_close(c) ==
  /\ pc[c] = "late_getfh"
  /\ CanGetfh(cur[c].fh)
  /\ LET h == cur[c].fh
         fd == getcfh(h).fd
         isflush == cur[c].kind = "flush"
         dupfd == LowestFree(openfds)
         tab == IF isflush /\ fd \in DOMAIN openfds
                THEN Opened(openfds, dupfd, openfds[fd]) ELSE openfds
         pushed == IF isflush THEN (IF fd \in DOMAIN openfds THEN dupfd ELSE -1) ELSE fd
     IN /\ fhSeen' = [fhSeen EXCEPT ![h + 1] = @ \cup {fd}]
        /\ closes' = Append(closes, pushed)
        /\ closeLog' = closeLog \o ClosedByPush(pushed)
        /\ errlog' = errlog \o CloserErrors(tab, ClosedByPush(pushed))
        /\ openfds' = Closed(tab, SeqRange(ClosedByPush(pushed)))
        /\ IF isflush
           THEN /\ fhs' = [fhs EXCEPT ![h + 1] = [@ EXCEPT !.flushed = TRUE]]
                /\ ret' = [ret EXCEPT ![c] = [val |-> 0, by |-> 0]]
                /\ pc' = [pc EXCEPT ![c] = "idle"]
                /\ cur' = [cur EXCEPT ![c] = NoTask]
           ELSE /\ pc' = [pc EXCEPT ![c] = "aw_ticket"]
                /\ UNCHANGED <<fhs, ret, cur>>
  /\ UNCHANGED <<options, bvars, workQueue, loc, awret, gvars, nops, file, kopen, mainpc>>

\* line 327, for the handlers that do something before cannyfs_add_write
add_write_ticket(c) ==
  /\ pc[c] = "aw_ticket"
  /\ eventId' = NextTicket
  /\ issued' = Append(issued, [by |-> c, ticket |-> NextTicket])
  /\ cur' = [cur EXCEPT ![c] = [@ EXCEPT !.id = NextTicket]]
  /\ pc' = [pc EXCEPT ![c] = "add_write"]
  /\ UNCHANGED <<options, waitingEvents, data, lastEventId, recLock, mapShared,
                 mapExcl, workQueue, loc, ret, awret, gvars, nops, hvars, mainpc>>

\* lines 815-828 and 838-840: the closures of flush (close(dup(getfh(fi))),
\* -errno on failure) and of release (the value of close(getfh(fi)))
body_close(th) ==
  /\ pc[th] = "body"
  /\ cur[th].kind \in {"flush", "release"}
  /\ CanGetfh(cur[th].fh)
  /\ LET h == cur[th].fh
         fd == getcfh(h).fd
         isopen == fd \in DOMAIN openfds
     IN /\ fhSeen' = [fhSeen EXCEPT ![h + 1] = @ \cup {fd}]
        /\ IF cur[th].kind = "flush"
           THEN /\ closeLog' = closeLog \o <<IF isopen THEN LowestFree(openfds) ELSE -1>>
                /\ loc' = [loc EXCEPT ![th] = [@ EXCEPT !.res = IF isopen THEN 0 ELSE -9]]
                /\ fhs' = [fhs EXCEPT ![h + 1] = [@ EXCEPT !.flushed = TRUE]]
                /\ UNCHANGED openfds
           ELSE /\ closeLog' = closeLog \o <<fd>>
                /\ openfds' = Closed(openfds, {fd})
                /\ loc' = [loc EXCEPT ![th] = [@ EXCEPT !.res = IF isopen THEN 0 ELSE -1]]
                /\ UNCHANGED fhs
  /\ bodyDone' = bodyDone \cup {cur[th].id}
  /\ pc' = [pc EXCEPT ![th] = "w_dtor"]
  /\ UNCHANGED <<options, bvars, workQueue, cur, ret, awret, submitted, finished,
                 results, nops, closes, file, kopen, errlog, mainpc>>

(* read and read_buf *)
\* the ranges the kernel reads back: those it has written through the
\* handle, or the first byte
ReadRanges(h) ==
  {<<t.offset, t.sz>> : t \in {s \in submitted : s.kind = "write_buf" /\ s.fh = h}}
    \cup {<<0, 1>>}

\* lines 709-715: cannyfs_read builds no cannyfs_reader; it goes straight to
\* pread(getfh(fi), buf, size, offset)
cannyfs_read(c, h, rng) ==
  /\ Begin(c)
  /\ h \in kopen
  /\ cur' = [cur EXCEPT ![c] = HTask(0, "read", getcfh(h).path, FALSE, h, rng[2], rng[1])]
  /\ loc' = [loc EXCEPT ![c] = [NoLoc EXCEPT !.before = SubmittedOn(getcfh(h).path),
                                             !.live = LiveWriters]]
  /\ pc' = [pc EXCEPT ![c] = "pread"]
  /\ nops' = nops - 1
  /\ UNCHANGED <<options, bvars, workQueue, ret, awret, gvars, hvars, mainpc>>

\* the bytes of the file of descriptor fd in the range of the thread's call
BytesAt(tab, fd, off, sz) ==
  IF Target(tab, fd).kind = "file"
  THEN SubSeq(file[Target(tab, fd).path], off + 1,
              Min(off + sz, Len(file[Target(tab, fd).path])))
  ELSE <<>>

\* lines 715-719: getfh (waits for `opened`), pread, and the return of the
\* number of bytes read or -errno
pread(c) ==
  /\ pc[c] = "pread"
  /\ CanGetfh(cur[c].fh)
  /\ LET fd == getcfh(cur[c].fh).fd
     IN /\ fhSeen' = [fhSeen EXCEPT ![cur[c].fh + 1] = @ \cup {fd}]
        /\ ret' = [ret EXCEPT ![c] =
                     [val |-> IF Target(openfds, fd).kind = "file"
                              THEN Len(BytesAt(openfds, fd, cur[c].offset, cur[c].sz))
                              ELSE 0 - EBADF,
                      by |-> 0]]
  /\ pc' = [pc EXCEPT ![c] = "idle"]
  /\ cur' = [cur EXCEPT ![c] = NoTask]
  /\ loc' = [loc EXCEPT ![c] = NoLoc]
  /\ UNCHANGED <<options, bvars, workQueue, awret, gvars, nops, fhs, openfds, closes,
                 file, kopen, closeLog, errlog, mainpc>>

\* lines 722-725: cannyfs_read_buf starts with cannyfs_reader b(path, JUST_BARRIER)
cannyfs_read_buf(c, h, rng) ==
  /\ Begin(c)
  /\ h \in kopen
  /\ cur' = [cur EXCEPT ![c] = HTask(0, "read_buf", getcfh(h).path, FALSE, h, rng[2], rng[1])]
  /\ loc' = [loc EXCEPT ![c] = [NoLoc EXCEPT !.bpath = getcfh(h).path,
                                             !.always = FALSE,
                                             !.flag = JUST_BARRIER,
                                             !.before = SubmittedOn(getcfh(h).path),
                                             !.live = LiveWriters]]
  /\ pc' = [pc EXCEPT ![c] = "get_shared"]
  /\ nops' = nops - 1
  /\ UNCHANGED <<options, bvars, workQueue, ret, awret, gvars, hvars, mainpc>>

\* lines 728-742: after the reader, read_buf puts getfh(fi) and the offset
\* into a fuse_bufvec and returns 0; the kernel reads the descriptor after
\* the handler has returned
read_buf_return(c) ==
  /\ pc[c] = "syscall"
  /\ cur[c].kind = "read_buf"
  /\ CanGetfh(cur[c].fh)
  /\ fhSeen' = [fhSeen EXCEPT ![cur[c].fh + 1] = @ \cup {getcfh(cur[c].fh).fd}]
  /\ ret' = [ret EXCEPT ![c] = [val |-> 0, by |-> 0]]
  /\ pc' = [pc EXCEPT ![c] = "idle"]
  /\ cur' = [cur EXCEPT ![c] = NoTask]
  /\ loc' = [loc EXCEPT ![c] = NoLoc]
  /\ UNCHANGED <<options, bvars, workQueue, awret, gvars, nops, fhs, openfds, closes,
                 file, kopen, closeLog, errlog, mainpc>>

(* -------------------------------- main -------------------------------- *)
\* line 1007: fuse_main returns when the file system is unmounted and no
\* callback is running
fuse_main_return ==
  /\ mainpc = "fuse_main"
  /\ \A c \in Clients : pc[c] = "idle"
  /\ mainpc' = "wait"
  /\ UNCHANGED <<options, bvars, workQueue, pc, cur, loc, ret, awret, gvars, nops, hvars>>

\* line 1008: workQueue.wait() returns when every closure has run; main
\* returns and the static `closes` is destroyed, element by element
workQueue_wait ==
  /\ mainpc = "wait"
  /\ workQueue = {}
  /\ \A w \in Workers : pc[w] = "idle"
  /\ mainpc' = "exit"
  /\ closeLog' = closeLog \o closes
  /\ errlog' = errlog \o CloserErrors(openfds, closes)
  /\ openfds' = Closed(openfds, SeqRange(closes))
  /\ UNCHANGED <<options, bvars, workQueue, pc, cur, loc, ret, awret, gvars, nops,
                 fhs, closes, file, kopen, fhSeen>>

(* ------------------------------ the specs ----------------------------- *)
\* the FUSE thread the kernel uses when calls come one after another
Fuse1 == {<<"c", 1>>}

\* the steps every closure takes, whatever the call
Engine ==
  \/ \E c \in Clients : cannyfs_add_write(c)
  \/ \E w \in Workers : workQueue_run(w)
  \/ \E th \in Threads : writer_ctor(th)
  \/ \E th \in Threads : filemap_get_shared(th)
  \/ \E th \in Threads : filemap_get_excl(th)
  \/ \E th \in Threads : filemap_get_lock(th)
  \/ \E th \in Threads : writer_dtor(th)

PoolSizes == 1..MaxWorkers

\* every thread is idle and no closure is queued
Quiescent == workQueue = {} /\ \A th \in Threads : pc[th] = "idle"

(* SpecBarrier: deferred chmod and getattr on two paths *)
BarrierPaths == {"/a", "/b"}

InitBarrier ==
  InitWith({[DefaultOptions EXCEPT !.numThreads = n] : n \in PoolSizes}, MaxOps)

NextBarrier ==
  \/ Engine
  \/ \E c \in Fuse1, p \in BarrierPaths : cannyfs_chmod(c, p)
  \/ \E c \in Fuse1, p \in BarrierPaths : cannyfs_getattr(c, p)
  \/ \E th \in Threads : body_meta(th)
  \/ \E c \in Clients : reader_wait(c)
  \/ \E c \in Clients : fs_syscall(c)

SpecBarrier == InitBarrier /\ [][NextBarrier]_vars

(* SpecSync: deferred chown, then truncate or unlink, on two paths *)
InitSync ==
  InitWith({[DefaultOptions EXCEPT !.numThreads = n] : n \in PoolSizes}, MaxOps)

NextSync ==
  \/ Engine
  \/ \E c \in Fuse1, p \in BarrierPaths : cannyfs_chown(c, p)
  \/ \E c \in Fuse1, p \in BarrierPaths : cannyfs_truncate(c, p)
  \/ \E c \in Fuse1, p \in BarrierPaths : cannyfs_unlink(c, p)
  \/ \E th \in Threads : body_meta(th)
  \/ \E c \in Clients : fs_syscall(c)

SpecSync == InitSync /\ [][NextSync]_vars

(* SpecChown: chown, deferred or not, on two paths *)
InitChown ==
  InitWith({[DefaultOptions EXCEPT !.numThreads = n, !.eagerchown = e] :
              n \in PoolSizes, e \in BOOLEAN}, MaxOps)

NextChown ==
  \/ Engine
  \/ \E c \in Fuse1, p \in BarrierPaths : cannyfs_chown(c, p)
  \/ \E th \in Threads : body_meta(th)

SpecChown == InitChown /\ [][NextChown]_vars

(* SpecDirs: chmod below a directory, opendir and readdir of the directory *)
DirPath == "/dir"
DirPaths == {"/dir", "/dir/file"}

InitDirs ==
  InitWith({[DefaultOptions EXCEPT !.numThreads = n, !.restrictivedirs = r] :
              n \in PoolSizes, r \in BOOLEAN}, MaxOps)

NextDirs ==
  \/ Engine
  \/ \E c \in Fuse1, p \in DirPaths : cannyfs_chmod(c, p)
  \/ \E c \in Fuse1 : cannyfs_opendir(c, DirPath)
  \/ \E c \in Fuse1 : cannyfs_readdir(c, DirPath)
  \/ \E th \in Threads : body_meta(th)
  \/ \E c \in Clients : reader_wait(c)
  \/ \E c \in Clients : fs_syscall(c)

SpecDirs == InitDirs /\ [][NextDirs]_vars

(* SpecHandle: create, open, write_buf, flush and release of one file *)
HandlePaths == {"/a"}
HandleSizes == {1}

InitHandle ==
  InitWith({[DefaultOptions EXCEPT !.numThreads = n, !.closeverylate = v] :
              n \in PoolSizes, v \in BOOLEAN}, MaxOps)

NextHandle ==
  \/ Engine
  \/ \E c \in Fuse1, p \in HandlePaths : cannyfs_open(c, p)
  \/ \E c \in Fuse1, p \in HandlePaths : cannyfs_create(c, p)
  \/ \E c \in Fuse1, h \in HandleIds, sz \in HandleSizes : cannyfs_write_buf(c, h, sz)
  \/ \E c \in Fuse1, h \in HandleIds : cannyfs_flush(c, h)
  \/ \E c \in Fuse1, h \in HandleIds : cannyfs_release(c, h)
  \/ \E c \in Clients : write_buf_splice(c)
  \/ \E c \in Clients : late_close(c)
  \/ \E c \in Clients : add_write_ticket(c)
  \/ \E th \in Threads : body_create(th)
  \/ \E th \in Threads : body_write_buf(th)
  \/ \E th \in Threads : body_close(th)

SpecHandle == InitHandle /\ [][NextHandle]_vars

(* SpecWrite: open one file, write it, flush with closeverylate, shut down *)
InitWrite ==
  InitWith({[DefaultOptions EXCEPT !.numThreads = n] : n \in PoolSizes}, MaxWriteOps)

NextWrite ==
  \/ Engine
  \/ \E c \in Fuse1, p \in HandlePaths : cannyfs_open(c, p)
  \/ \E c \in Fuse1, h \in HandleIds, sz \in WriteSizes : cannyfs_write_buf(c, h, sz)
  \/ \E c \in Fuse1, h \in HandleIds : cannyfs_flush(c, h)
  \/ \E c \in Clients : write_buf_splice(c)
  \/ \E c \in Clients : late_close(c)
  \/ \E th \in Threads : body_write_buf(th)
  \/ fuse_main_return
  \/ workQueue_wait

SpecWrite == InitWrite /\ [][NextWrite]_vars

(* SpecTicket: two FUSE threads call chown on one path at the same time *)
TicketPaths == {"/a"}

InitTicket ==
  InitWith({[DefaultOptions EXCEPT !.numThreads = n, !.eagerchown = e] :
              n \in PoolSizes, e \in BOOLEAN}, MaxOps)

NextTicketStep ==
  \/ Engine
  \/ \E c \in Clients, p \in TicketPaths : cannyfs_chown(c, p)
  \/ \E th \in Threads : body_meta(th)

SpecTicket == InitTicket /\ [][NextTicketStep]_vars

(* SpecRead: open one file, write it, read it back with read and read_buf *)
InitRead ==
  InitWith({[DefaultOptions EXCEPT !.numThreads = n] : n \in PoolSizes}, MaxOps)

NextRead ==
  \/ Engine
  \/ \E c \in Fuse1, p \in HandlePaths : cannyfs_open(c, p)
  \/ \E c \in Fuse1, h \in HandleIds, sz \in HandleSizes : cannyfs_write_buf(c, h, sz)
  \/ \E c \in Fuse1, h \in HandleIds : \E rng \in ReadRanges(h) : cannyfs_read(c, h, rng)
  \/ \E c \in Fuse1, h \in HandleIds : \E rng \in ReadRanges(h) : cannyfs_read_buf(c, h, rng)
  \/ \E c \in Clients : write_buf_splice(c)
  \/ \E th \in Threads : body_write_buf(th)
  \/ \E c \in Clients : pread(c)
  \/ \E c \in Clients : reader_wait(c)
  \/ \E c \in Clients : read_buf_return(c)

SpecRead == InitRead /\ [][NextRead]_vars

(* SpecLink: deferred link between two paths, and getattr of them *)
LinkPaths == {"/a", "/b"}

InitLink ==
  InitWith({[DefaultOptions EXCEPT !.numThreads = n] : n \in PoolSizes}, MaxOps)

\* the steps of the closures and readers of these calls
LinkEngine ==
  \/ Engine
  \/ \E th \in Threads : writer2_ctor(th)
  \/ \E th \in Threads : relock_own_mutex(th)
  \/ \E th \in Threads : body_link(th)
  \/ \E th \in Threads : writer2_dtor(th)
  \/ \E c \in Clients : reader_wait(c)
  \/ \E c \in Clients : fs_syscall(c)

NextLink ==
  \/ LinkEngine
  \/ \E c \in Fuse1, from \in LinkPaths, to \in LinkPaths : cannyfs_link(c, from, to)
  \/ \E c \in Fuse1, p \in LinkPaths : cannyfs_getattr(c, p)

SpecLink == InitLink /\ [][NextLink]_vars

(* ------------------------------ the claims ---------------------------- *)
\* the closure that holds ticket id
TaskOf(id) == CHOOSE t \in submitted : t.id = id
\* tickets of the closures that were handed to the work queue
DeferredIds == {t.id : t \in {s \in submitted : s.defer}}

\* C1: when the constructor of a cannyfs_reader on path p has returned (the
\* handler is at its syscall), every closure cannyfs_add_write accepted for p
\* before the handler was entered has finished.
C1_ReaderDrained ==
  \A c \in Clients :
    (pc[c] = "syscall" /\ cur[c].kind = "getattr") => loc[c].before \subseteq finished

\* C2: of two deferred closures on the same path, the one with the smaller
\* ticket runs its body first: the later body has not run while the earlier
\* one has not.
C2_SamePathInTicketOrder ==
  \A a \in submitted, b \in submitted :
    (a.defer /\ b.defer /\ a.path = b.path /\ a.id < b.id /\ b.id \in bodyDone)
      => a.id \in bodyDone

\* C3: when truncate or unlink on p is at its syscall, every deferred closure
\* accepted for p before the call was made has finished.
C3_SyncAfterDeferred ==
  \A c \in Clients :
    (pc[c] = "syscall" /\ cur[c].kind \in SyncKinds) => loc[c].before \subseteq finished

\* the write_buf closures accepted for handle h
WritesOn(h) == {t \in submitted : t.kind = "write_buf" /\ t.fh = h}
RECURSIVE ConcatUpTo(_, _)
\* the payloads of the write_buf calls on h with tickets up to n, in order
ConcatUpTo(h, n) ==
  IF n = 0 THEN <<>>
  ELSE ConcatUpTo(h, n - 1) \o
       (IF \E t \in WritesOn(h) : t.id = n THEN Payload(TaskOf(n)) ELSE <<>>)
\* the file holds the payload of write_buf call t at the call's offset
FileHas(t) ==
  /\ Len(file[t.path]) >= t.offset + t.sz
  /\ SubSeq(file[t.path], t.offset + 1, t.offset + t.sz) = Payload(t)

\* C4: after a clean shutdown, a file that was opened once, written by K
\* write_buf calls at consecutive offsets and then flushed (closeverylate)
\* holds the K payloads in submission order; stated for the runs in which
\* every closure moved its full sz bytes out of the pipe.
C4_FileIsConcatenation ==
  (mainpc = "exit" /\ options.closeverylate /\ Len(fhs) = 1 /\ kopen = {0}
     /\ getcfh(0).flushed
     /\ \A t \in WritesOn(0) : <<t.id, t.sz>> \in results)
    => file[getcfh(0).path] = ConcatUpTo(0, eventId)

\* C5: getfh never returns -1, and a handle's descriptor, once stored by
\* setfh, stays what it is: every getfh returns the first descriptor bound.
C5_HandleBinding ==
  \A h \in HandleIds :
    /\ -1 \notin fhSeen[h + 1]
    /\ getcfh(h).first = -1 => (getcfh(h).fd = -1 /\ fhSeen[h + 1] = {})
    /\ getcfh(h).first # -1 =>
         /\ getcfh(h).first >= 0
         /\ getcfh(h).fd = getcfh(h).first
         /\ fhSeen[h + 1] \subseteq {getcfh(h).first}

\* C5 witness: a handle made by create was bound by its closure, and getfh
\* has returned the descriptor to a write_buf closure that has finished
C5_Witness ==
  \E h \in HandleIds :
    /\ getcfh(h).created /\ getcfh(h).fd >= 0
    /\ fhSeen[h + 1] = {getcfh(h).fd}
    /\ \E t \in WritesOn(h) : t.id \in finished

\* C6: every handle the kernel holds gets bound: when no closure is queued
\* or running any more, no handle the kernel holds is unbound.
C6_KernelHandlesBound ==
  Quiescent => \A h \in kopen : getcfh(h).fd >= 0

\* the steps of the engine and of the closures of the handle calls
HandleEngine ==
  \/ Engine
  \/ \E c \in Clients : write_buf_splice(c)
  \/ \E c \in Clients : late_close(c)
  \/ \E c \in Clients : add_write_ticket(c)
  \/ \E th \in Threads : body_create(th)
  \/ \E th \in Threads : body_write_buf(th)
  \/ \E th \in Threads : body_close(th)

\* C7: a write_buf on a handle made by create does not wait for the handle
\* to be bound in the calling thread, and its data reaches the file: the
\* closures can always go on while the create closure of the handle has not
\* failed, and once nothing is queued or running the file holds the
\* payload of every write_buf made on a handle that is bound and was not
\* released.
C7_WriteBeforeOpen ==
  /\ \A c \in Clients : pc[c] = "wb_splice" => ENABLED write_buf_splice(c)
  /\ \A t \in submitted :
       (t.kind = "write_buf" /\ getcfh(t.fh).created
          /\ (\A k \in submitted : (k.kind = "create" /\ k.fh = t.fh)
                                      => <<k.id, -2>> \notin results)
          /\ t.id \notin finished)
         => ENABLED HandleEngine
  /\ Quiescent =>
       \A t \in submitted :
         (t.kind = "write_buf" /\ getcfh(t.fh).created /\ getcfh(t.fh).fd >= 0
            /\ t.fh \in kopen)
           => FileHas(t)

\* the steps of one thread that is inside a closure
ClosureStep(th) ==
  \/ writer_ctor(th)
  \/ filemap_get_shared(th)
  \/ filemap_get_excl(th)
  \/ filemap_get_lock(th)
  \/ body_meta(th)
  \/ writer_dtor(th)
InClosure(th) == pc[th] \in {"w_ctor", "get_shared", "get_excl", "get_lock", "body", "w_dtor"}

\* C8: chown closures never deadlock: while a closure is queued or running
\* some step of the engine is possible; a closure that waits for a record
\* mutex waits for a closure on its own path; and with one worker no closure
\* ever waits at all.
C8_ChownNoDeadlock ==
  /\ (workQueue # {} \/ \E th \in Threads : pc[th] # "idle")
       => ENABLED (Engine \/ \E th \in Threads : body_meta(th))
  /\ \A th \in Threads :
       (pc[th] = "get_lock" /\ recLock[loc[th].bpath] # NoThread)
         => cur[recLock[loc[th].bpath]].path = cur[th].path
  /\ options.numThreads = 1 => \A th \in Threads : InClosure(th) => ENABLED ClosureStep(th)

\* C8 witness: one worker, chown on /a and chown on /b both deferred and
\* both finished
C8_Witness ==
  /\ options.numThreads = 1
  /\ \E a \in submitted, b \in submitted :
       /\ a.path = "/a" /\ b.path = "/b" /\ a.defer /\ b.defer
       /\ a.kind = "chown" /\ b.kind = "chown"
       /\ {a.id, b.id} \subseteq finished
  /\ Quiescent

\* C9: with restrictivedirs, when opendir or readdir of /dir is at its
\* syscall, every chmod closure on /dir/file whose writer existed when the
\* handler was entered has finished.
C9_DirReaderWaits ==
  \A c \in Clients :
    (options.restrictivedirs /\ pc[c] = "syscall" /\ cur[c].kind \in {"opendir", "readdir"})
      => \A id \in loc[c].live : TaskOf(id).path = "/dir/file" => id \in finished

\* C10: cannyfs_add_write called with defer returns 0 and not a value of the
\* closure; called without defer it returns the closure's result; and no
\* filesystem call returns the value of a deferred closure.
C10_AddWriteReturn ==
  \A c \in Clients :
    /\ awret[c].ticket # 0 =>
         IF awret[c].defer
         THEN awret[c].val = 0 /\ awret[c].by = 0
         ELSE awret[c].by = awret[c].ticket /\ <<awret[c].ticket, awret[c].val>> \in results
    /\ ret[c].by \notin DeferredIds

\* C10 witness: a deferred closure has failed after its call returned 0,
\* and a later call has returned as well
C10_Witness ==
  \E c \in Clients, t \in submitted :
    /\ t.defer /\ <<t.id, -2>> \in results
    /\ awret[c].ticket > t.id /\ awret[c].defer /\ pc[c] = "idle"

\* the value the closure of ticket id returned
ResultOf(id) == CHOOSE r \in {x \in results : x[1] = id} : TRUE
\* the lines of stderr, as a set
Reported == {errlog[i] : i \in DOMAIN errlog}

\* C11: a deferred closure that has returned a negative value (-errno) has
\* left a line with that errno on stderr by the time it has finished.
C11_DeferredFailureReported ==
  \A t \in submitted :
    (t.defer /\ t.id \in finished /\ ResultOf(t.id)[2] < 0)
      => (0 - ResultOf(t.id)[2]) \in Reported

\* C12: with closeverylate, flush and release hand no closure to
\* cannyfs_add_write, and before teardown close() has been called on no
\* descriptor that is in `closes`.
C12_VeryLateCloseOnlyAppends ==
  options.closeverylate =>
    /\ \A t \in submitted : t.kind \notin {"flush", "release"}
    /\ mainpc # "exit" =>
         \A i \in DOMAIN closes : \A j \in DOMAIN closeLog : closes[i] # closeLog[j]

\* C13: when main has returned (fuse_main and workQueue.wait are over), every
\* closure accepted has finished, waitingEvents is empty and no descriptor of
\* `closes` is open.
C13_CleanShutdown ==
  mainpc = "exit" =>
    /\ \A t \in submitted : t.id \in finished
    /\ waitingEvents = {}
    /\ \A i \in DOMAIN closes : closes[i] \notin DOMAIN openfds

\* C14: the tickets ++::eventId gives are strictly increasing in the order
\* they are given, whoever asks, so no two calls hold the same ticket; the
\* counter is the last ticket given, and two threads never work on the same
\* ticket.
C14_TicketsIncrease ==
  /\ \A i \in DOMAIN issued, j \in DOMAIN issued :
       i < j => issued[i].ticket < issued[j].ticket
  /\ issued # <<>> => issued[Len(issued)].ticket = eventId
  /\ \A t1 \in Threads, t2 \in Threads :
       (t1 # t2 /\ cur[t1].id # 0) => cur[t1].id # cur[t2].id
  /\ \A c \in Clients :
       (pc[c] = "add_write" /\ awret[c].ticket # 0) => awret[c].ticket < cur[c].id

\* C14 witness: both FUSE threads are inside cannyfs_add_write at once, each
\* with its ticket, after an earlier call has returned
C14_Witness ==
  /\ \A c \in Clients : pc[c] = "add_write"
  /\ \E c \in Clients : awret[c].ticket # 0
  /\ \E i \in DOMAIN issued, j \in DOMAIN issued : issued[i].by # issued[j].by

\* the threads whose cannyfs_writer is constructed and not yet destroyed
HasWriter(th) == pc[th] \in {"body", "w_dtor"}

\* C15: while a cannyfs_writer for ticket t on path p exists, the record of
\* p has lastEventId >= t.
C15_WriterStampsRecord ==
  \A th \in Threads : HasWriter(th) => lastEventId[cur[th].path] >= cur[th].id

\* the threads that are in the constructor of a cannyfs_writer after its
\* insert (line 289), or hold a constructed writer
PastInsert(th) ==
  \/ HasWriter(th)
  \/ pc[th] \in {"get_shared", "get_excl", "get_lock"} /\ cur[th].kind \notin ReaderKinds

\* C16: a ticket is in waitingEvents exactly while a cannyfs_writer for a
\* real path holds it: it is there from the constructor's insert to the
\* destructor, and not before or after.
C16_PendingWhileWriterLives ==
  \A id \in 1..eventId :
    id \in waitingEvents <=>
      \E th \in Threads : PastInsert(th) /\ cur[th].id = id /\ cur[th].path # ""

\* the positions at which filemap.get has returned a record to the thread
GotRecord(th) == pc[th] \in {"body", "w_dtor", "w_general", "r_check"}

\* what holds in every state: the map is never read while it is changed, a
\* thread that get gave a record to found it in the map and owns its mutex
\* (so no two threads hold a record of one path at once), and a reader that
\* got null owns no mutex
GetState ==
  /\ mapExcl # NoThread => mapShared = {}
  /\ \A th \in Threads :
       GotRecord(th) => /\ loc[th].found
                        /\ loc[th].bpath \in data
                        /\ recLock[loc[th].bpath] = th
  /\ \A th \in Threads : pc[th] = "get_lock" => loc[th].bpath \in data
  /\ \A c \in Clients :
       (pc[c] = "syscall" /\ ~loc[c].found) => \A k \in Keys : recLock[k] # c

\* what holds of every step: no record is removed; get returns null only on
\* a miss with always = false, and then changes neither map nor mutexes; a
\* miss with always = true goes on to the exclusive phase; a record is added
\* only by a thread in the exclusive phase, and only its own path; and get
\* returns a record only with the record's mutex taken
GetStep ==
  /\ data \subseteq data'
  /\ \A th \in Threads :
       /\ (pc[th] = "get_shared" /\ pc'[th] = "syscall")
            => /\ loc[th].bpath \notin data /\ ~loc[th].always
               /\ data' = data /\ recLock' = recLock
       /\ (pc[th] = "get_shared" /\ pc'[th] = "get_excl")
            => loc[th].bpath \notin data /\ loc[th].always /\ data' = data
       /\ (pc[th] = "get_shared" /\ pc'[th] = "get_lock") => loc[th].bpath \in data
       /\ (pc[th] = "get_lock" /\ pc'[th] # "get_lock")
            => recLock[loc[th].bpath] = NoThread /\ recLock'[loc[th].bpath] = th
  /\ data' # data =>
       \E th \in Threads : /\ pc[th] = "get_excl"
                           /\ data' = data \cup {loc[th].bpath}
                           /\ loc[th].bpath \notin data

\* C17: cannyfs_filemap::get returns the record of the path with the
\* record's mutex held on a hit, null (with nothing inserted and no mutex
\* taken) on a miss without `always`, and a newly inserted record, locked,
\* on a miss with `always`; threads that ask for the same new path at once
\* all get the one record, and no record is ever removed.
C17_FilemapGet == [] GetState /\ [][GetStep]_vars

\* C17 witness: two threads asked for the same new path at once; one has
\* inserted the record and holds it, the other found it in the exclusive
\* phase and waits for its mutex; and a reader has got null for the other
\* path
C17_Witness ==
  /\ \E t1 \in Threads, t2 \in Threads :
       /\ t1 # t2 /\ GotRecord(t1) /\ pc[t2] = "get_lock" /\ mapExcl = t2
       /\ loc[t1].bpath = loc[t2].bpath
  /\ \E c \in Clients : pc[c] = "syscall" /\ ~loc[c].found /\ loc[c].bpath \notin data

\* C18: the accesses to waitingEvents never overlap: no thread is about to
\* change the set while another thread is about to read or change it.
C18_PendingSetExclusive ==
  \A t1 \in Threads, t2 \in Threads :
    (t1 # t2 /\ Modifies(t1)) => ~Accessing(t2)

\* the thread is about to read the file, or to give its descriptor to the
\* kernel to read: the cannyfs_reader of a read_buf has been constructed
AtStorage(c) ==
  /\ \/ pc[c] = "pread"
     \/ pc[c] = "syscall" /\ cur[c].kind = "read_buf"
  /\ CanGetfh(cur[c].fh)

\* the write_buf calls that had returned when the thread's read began, on
\* the read's path and range, and not overwritten by a later one of them
WrittenBefore(c) ==
  {t \in submitted :
     /\ t.kind = "write_buf" /\ t.id \in loc[c].before
     /\ t.path = cur[c].path /\ t.offset = cur[c].offset /\ t.sz = cur[c].sz
     /\ \A u \in submitted :
          (u.kind = "write_buf" /\ u.path = t.path /\ u.id \in loc[c].before
             /\ u.offset = t.offset) => u.id <= t.id}

\* C19: when read or read_buf gets to the underlying file, the file holds,
\* in the range of the read, the bytes of the write_buf call that was made
\* on that range before the read began.
C19_ReadSeesWrite ==
  \A c \in Clients : AtStorage(c) => \A t \in WrittenBefore(c) : FileHas(t)

\* C20: no descriptor is closed twice: a descriptor that was appended to
\* `closes` is still open until teardown and is there once; no destructor of
\* a cannyfs_closer and no close closure has called close() on a descriptor
\* that was not open; and a release that put its descriptor into `closes`
\* runs no close closure on it.
C20_ClosedAtMostOnce ==
  /\ mainpc # "exit" => \A i \in DOMAIN closes : closes[i] \in DOMAIN openfds
  /\ \A i \in DOMAIN closes, j \in DOMAIN closes : i # j => closes[i] # closes[j]
  /\ EBADF \notin Reported
  /\ \A t \in submitted :
       (t.kind = "release" /\ t.id \in finished) => ResultOf(t.id)[2] = 0
  /\ \A t \in submitted :
       t.kind = "release" => getcfh(t.fh).fd \notin SeqRange(closes)

\* the first n bytes that are in the pipe of handle h
PipeHead(h, n) == SubSeq(getcfh(h).pipe, 1, Min(n, Len(getcfh(h).pipe)))

\* C22: when the closure of a write_buf call gets to its copy from the read
\* end of the pipe (getfh has returned), the pipe holds the sz bytes of that
\* very call at its head; and a closure that has finished has moved sz bytes.
C22_ClosureFindsOwnBytes ==
  /\ \A th \in Threads :
       (pc[th] = "body" /\ cur[th].kind = "write_buf" /\ CanGetfh(cur[th].fh))
         => PipeHead(cur[th].fh, cur[th].sz) = Payload(cur[th])
  /\ \A t \in submitted :
       (t.kind = "write_buf" /\ t.id \in finished /\ getcfh(t.fh).fd >= 0)
         => ResultOf(t.id)[2] = t.sz

\* C21: link closures and readers never deadlock: while a closure is queued
\* or a thread is inside a call, some thread can take a step.
C21_LinkNoDeadlock ==
  (workQueue # {} \/ \E th \in Threads : pc[th] # "idle") => ENABLED LinkEngine

====
